---- MODULE Spec2Model ----
(***************************************************************************)
(* PixelCloakApp: chaos-keyed LSB steganography (src/src/App.js).          *)
(*                                                                         *)
(* The model follows the application: the React handlers handleFileSelect, *)
(* handleEncode, handleDownload and handleDecode, and the service they     *)
(* call (ChaosPRNG, SteganographyService).  A handler that has entered     *)
(* ChaosPRNG.generatePixelSequence advances one do-while iteration per     *)
(* step, so that a loop that never leaves is a behaviour of the model.     *)
(*                                                                         *)
(* Floating point is not available here.  The logistic map's trajectory    *)
(* is abstracted to an orbit: a cyclic stream of (x, y, channel) draws,    *)
(* one draw per three nextInt calls.  The orbit is chosen once, in Init,   *)
(* from a bounded family; the key decides, through generateSeed's integer  *)
(* accumulator (modelled exactly), where on the orbit a sequencer starts.  *)
(* A sequencer's floating-point state is its position on the orbit.        *)
(***************************************************************************)
EXTENDS Integers, Sequences, FiniteSets

VARIABLES
    orbit,      \* the logistic map's draw stream (chosen in Init, then fixed)
    image,      \* App state `image`, as the ImageData loadImageData yields
    hidden,     \* history: the (message, key) the selected file was encoded with
    file,       \* the downloaded hidden_image.png (with its history), or NoValue
    message,    \* App state `message`
    key,        \* App state `key`
    result,     \* App state `result`
    error,      \* App state `error`
    loading,    \* App state `loading`
    pc,         \* where the running handler stands
    prng,       \* the running call's ChaosPRNG
    gen,        \* the running generatePixelSequence call
    fullBinary, \* encode's payload bits
    returned,   \* history: what generatePixelSequence calls of the running handler returned
    calls       \* handler runs started so far

vars == <<orbit, image, hidden, file, message, key, result, error, loading,
          pc, prng, gen, fullBinary, returned, calls>>

\* null
NoValue == [none |-> TRUE]
\* null, where the other values are strings
NoError == ""

(***************************************************************************)
(* Bounds of the model.                                                    *)
(***************************************************************************)
\* handler runs (encode or decode clicks) in one behaviour
MaxCalls == 2
\* an orbit may repeat one earlier draw, at most this far from the end of
\* the header, and at most this many draws back
EchoSpan == 2
\* an orbit may leave out up to this many of the addressable locations
Unreached == 1

(***************************************************************************)
(* Program constants.                                                      *)
(***************************************************************************)
HeaderBits == 32
CharBits == 16
SeedMultiplier == 17
SeedModulus == 1000
Channels == 3
BytesPerPixel == 4

(***************************************************************************)
(* Inputs of the model.  A string is a sequence of UTF-16 code units.      *)
(***************************************************************************)
\* "", " ", the one character U+4E2D, "Hi"
Messages == {<<>>, <<32>>, <<20013>>, <<72, 105>>}
\* "", "a", "wJ", "b"
Keys == {<<>>, <<97>>, <<119, 74>>, <<98>>}
\* (width, height) of the image files at hand
Sizes == {<<2, 2>>, <<4, 4>>}

Min(a, b) == IF a < b THEN a ELSE b

(***************************************************************************)
(* Strings and bits.                                                       *)
(***************************************************************************)
\* Number.prototype.toString(2) of a non-negative integer
RECURSIVE ToBinary(_)
ToBinary(n) == IF n < 2 THEN <<n>> ELSE Append(ToBinary(n \div 2), n % 2)

\* String.prototype.padStart(len, '0')
PadStart(s, len) ==
    IF Len(s) >= len THEN s ELSE [i \in 1..(len - Len(s)) |-> 0] \o s

\* the value of the first n of a string of binary digits, most significant
\* first
RECURSIVE BinaryValue(_, _)
BinaryValue(s, n) ==
    IF n = 0 THEN 0 ELSE 2 * BinaryValue(s, n - 1) + s[n]

\* parseInt(s, 2) of a non-empty string of binary digits.  Integers here are
\* 32 bits wide: a value of 2^30 or more is held as Huge, which is above
\* every number the code compares it with.
Huge == 2^30
ParseBinary(s) ==
    IF \E i \in 1..(Len(s) - 30) : s[i] = 1 THEN Huge
    ELSE LET low == SubSeq(s, IF Len(s) > 30 THEN Len(s) - 29 ELSE 1, Len(s))
         IN  BinaryValue(low, Len(low))

\* String.prototype.substr(start, length), start counted from 0
Substr(s, start, length) == SubSeq(s, start + 1, Min(start + length, Len(s)))

\* the code points String.prototype.trim() strips
WhiteSpace ==
    {9, 10, 11, 12, 13, 32, 160, 5760, 8232, 8233, 8239, 8287, 12288, 65279}
        \cup (8192..8202)

\* !str.trim()
TrimIsEmpty(str) == \A i \in 1..Len(str) : str[i] \in WhiteSpace

\* stringToBinary, for the first n characters of str
RECURSIVE stringToBinaryUpTo(_, _)
stringToBinaryUpTo(str, n) ==
    IF n = 0 THEN <<>>
    ELSE stringToBinaryUpTo(str, n - 1) \o PadStart(ToBinary(str[n]), CharBits)

stringToBinary(str) == stringToBinaryUpTo(str, Len(str))

RECURSIVE binaryToStringFrom(_, _)
binaryToStringFrom(binary, i) ==
    IF i >= Len(binary) THEN <<>>
    ELSE <<ParseBinary(Substr(binary, i, CharBits))>>
             \o binaryToStringFrom(binary, i + CharBits)

binaryToString(binary) == binaryToStringFrom(binary, 0)

(***************************************************************************)
(* ChaosPRNG.                                                              *)
(***************************************************************************)
\* the accumulator loop of generateSeed, after n characters of the key:
\* value += code; value = value * 17 % 1000
RECURSIVE Accumulate(_, _)
Accumulate(k, n) ==
    IF n = 0 THEN 0
    ELSE ((Accumulate(k, n - 1) + k[n]) * SeedMultiplier) % SeedModulus

\* generateSeed, in thousandths before the burn-in: value / 1000, and 0.5
\* when that is not inside (0, 1).  The 100 logistic iterations that follow
\* are a function of this value; the seed is named by it.
generateSeed(k) ==
    LET value == Accumulate(k, Len(k))
    IN  IF value <= 0 \/ value >= SeedModulus THEN SeedModulus \div 2 ELSE value

\* addressable locations of a width x height image
Capacity(width, height) == width * height * Channels

\* the orbits of the family: all but `miss` of the locations are visited in
\* turn; an orbit with echoAt > 0 repeats, as its draw number echoAt, the
\* draw made echoOf draws before
Orbits ==
    {[miss |-> u, echoAt |-> 0, echoOf |-> 0] : u \in 0..Unreached}
        \cup {[miss |-> 0, echoAt |-> p, echoOf |-> q] :
                p \in (HeaderBits - EchoSpan + 1)..(HeaderBits + EchoSpan),
                q \in 1..EchoSpan}

Reach(o, width, height) == Capacity(width, height) - o.miss

HasEcho(o, width, height) ==
    o.echoAt > 0 /\ o.echoAt <= Reach(o, width, height) + 1

\* the orbit closes after this many draws
Period(o, width, height) ==
    Reach(o, width, height) + (IF HasEcho(o, width, height) THEN 1 ELSE 0)

\* a sequencer that goes on from the state the one before it was left in
ChaosPRNGCarriedOn(k, width, height) ==
    [key |-> k, width |-> width, height |-> height,
     totalPixels |-> width * height, seed |-> generateSeed(k),
     state |-> IF prng = NoValue THEN 0 ELSE prng.state]

\* new ChaosPRNG(key, width, height)
ChaosPRNG(k, width, height) ==
    [key |-> k, width |-> width, height |-> height,
     totalPixels |-> width * height, seed |-> generateSeed(k), state |-> 0]

\* next(): the state after one more draw (three logistic steps)
NextState(p) == (p.state + 1) % Period(orbit, p.width, p.height)

\* x = nextInt(width); y = nextInt(height); channel = nextInt(3), drawn from
\* state p.state: always 0 <= x < width, 0 <= y < height, 0 <= channel < 3
NextDraw(p) ==
    LET n     == p.state + 1
        turn  == IF ~HasEcho(orbit, p.width, p.height) THEN n
                 ELSE IF n = orbit.echoAt THEN n - orbit.echoOf
                 ELSE IF n > orbit.echoAt THEN n - 1
                 ELSE n
        index == (turn - 1 + p.seed) % Reach(orbit, p.width, p.height)
    IN  [x |-> index % p.width,
         y |-> (index \div p.width) % p.height,
         channel |-> index \div (p.width * p.height)]

\* `${x},${y},${channel}`
PositionKey(l) == <<l.x, l.y, l.channel>>

\* generatePixelSequence(count) on entry: an empty sequence, a new Set
StartSequence(count) == [count |-> count, sequence |-> <<>>, usedPositions |-> {}]

\* a loop that takes every draw
RejectedNever(g, l) == FALSE

\* the do-while condition: draw again
Rejected(g, l) == PositionKey(l) \in g.usedPositions

\* usedPositions.add(positionKey); sequence.push({x, y, channel})
Accept(g, l) ==
    [g EXCEPT !.sequence = Append(@, l),
              !.usedPositions = @ \cup {PositionKey(l)}]

\* one iteration of the do-while loop of generatePixelSequence
Iterate(g, p) ==
    LET l == NextDraw(p)
    IN  [gen  |-> IF Rejected(g, l) THEN g ELSE Accept(g, l),
         prng |-> [p EXCEPT !.state = NextState(p)]]

\* the for loop is over: i < count no longer holds
Returns(g) == Len(g.sequence) >= g.count

\* generatePixelSequence(count) run to its return in one go, given up after
\* `turns` iterations of the do-while loop
RECURSIVE generatePixelSequence(_, _, _)
generatePixelSequence(g, p, turns) ==
    IF Returns(g) \/ turns = 0 THEN [gen |-> g, prng |-> p]
    ELSE LET it == Iterate(g, p)
         IN  generatePixelSequence(it.gen, it.prng, turns - 1)

\* the first n of a series of generatePixelSequence calls on sequencer p
RECURSIVE Series(_, _, _)
Series(p, counts, n) ==
    IF n = 0 THEN [prng |-> p, sequences |-> <<>>]
    ELSE LET before == Series(p, counts, n - 1)
             call   == generatePixelSequence(StartSequence(counts[n]), before.prng,
                                             Period(orbit, p.width, p.height))
         IN  [prng |-> call.prng,
              sequences |-> Append(before.sequences, call.gen.sequence)]

(***************************************************************************)
(* SteganographyService.                                                   *)
(***************************************************************************)
\* the index of a location's byte in ImageData.data, counted from 0
ByteIndex(l, width) == (l.y * width + l.x) * BytesPerPixel + l.channel

\* currentValue | bit: the old bit is not cleared
SetLsbUnmasked(currentValue, bit) ==
    IF currentValue % 2 = 1 THEN currentValue ELSE currentValue + bit

\* (currentValue & 0xFE) | bit
SetLsb(currentValue, bit) == currentValue - (currentValue % 2) + bit

\* data[index] & 0x01
Lsb(value) == value % 2

\* the embedding loop of encode, for i = 0 .. n-1
RECURSIVE Embed(_, _, _, _, _)
Embed(data, width, pixelSequence, bits, n) ==
    IF n = 0 THEN data
    ELSE LET before == Embed(data, width, pixelSequence, bits, n - 1)
             at     == ByteIndex(pixelSequence[n], width) + 1
         IN  [before EXCEPT ![at] = SetLsb(@, bits[n])]

\* a header that counts characters
FullBinaryOfCharacters(msg) ==
    PadStart(ToBinary(Len(msg)), HeaderBits) \o stringToBinary(msg)

\* messageBinary, lengthBinary and fullBinary of encode
FullBinary(msg) ==
    LET messageBinary == stringToBinary(msg)
        lengthBinary  == PadStart(ToBinary(Len(messageBinary)), HeaderBits)
    IN  lengthBinary \o messageBinary

\* newData = data: the embedding loop writes the caller's buffer
EncodeBuffersInPlace(imageData, pixelSequence, bits) ==
    LET written == Embed(imageData.data, imageData.width, pixelSequence, bits,
                         Len(bits))
    IN  [data |-> written, newData |-> written]

\* the two buffers of encode when its embedding loop ends: newData is a
\* copy (new Uint8ClampedArray(data)) and takes every write, data none
EncodeBuffers(imageData, pixelSequence, bits) ==
    [data    |-> imageData.data,
     newData |-> Embed(imageData.data, imageData.width, pixelSequence, bits,
                       Len(bits))]

\* new ImageData(newData, width, height)
ImageData(newData, width, height) ==
    [width |-> width, height |-> height, data |-> newData]

\* the extraction loops of decode
ReadBits(imageData, sequence) ==
    [i \in 1..Len(sequence) |->
        Lsb(imageData.data[ByteIndex(sequence[i], imageData.width) + 1])]

\* messageLength <= 0 || messageLength > width * height * 3
InvalidLength(messageLength, imageData) ==
    messageLength <= 0
        \/ messageLength > Capacity(imageData.width, imageData.height)

(***************************************************************************)
(* The image files at hand: opaque pixels (100, 100, 100, 255), and the    *)
(* same with the red byte of pixel (1, 1) odd.                             *)
(***************************************************************************)
Flat(width, height) ==
    [width |-> width, height |-> height,
     data |-> [i \in 1..(width * height * BytesPerPixel) |->
                  IF i % BytesPerPixel = 0 THEN 255 ELSE 100]]

Speck(width, height) ==
    LET f == Flat(width, height)
    IN  [f EXCEPT !.data = [@ EXCEPT ![(width + 1) * BytesPerPixel + 1] = 101]]

Originals ==
    {Flat(s[1], s[2]) : s \in Sizes} \cup {Speck(s[1], s[2]) : s \in Sizes}

\* what the file dialog offers: the originals and the downloaded image
Files ==
    {[image |-> o, hidden |-> NoValue] : o \in Originals}
        \cup (IF file = NoValue THEN {} ELSE {file})

(***************************************************************************)
(* The App.                                                                *)
(***************************************************************************)
Init ==
    /\ orbit \in Orbits
    /\ image = NoValue
    /\ hidden = NoValue
    /\ file = NoValue
    /\ message = <<>>
    /\ key = <<>>
    /\ result = NoValue
    /\ error = NoError
    /\ loading = FALSE
    /\ pc = "idle"
    /\ prng = NoValue
    /\ gen = NoValue
    /\ fullBinary = <<>>
    /\ returned = <<>>
    /\ calls = 0

Service == <<prng, gen, fullBinary, returned>>

\* handleFileSelect, with an image file chosen
handleFileSelect ==
    /\ pc = "idle"
    /\ \E f \in Files :
          /\ image' = f.image
          /\ hidden' = f.hidden
    /\ result' = NoValue
    /\ error' = NoError
    /\ UNCHANGED <<orbit, file, message, key, loading, pc, calls, Service>>

\* handleDownload: the encoded image is saved as hidden_image.png
handleDownload ==
    /\ pc = "idle"
    /\ result # NoValue
    /\ result.type = "encoded"
    /\ file' = [image |-> result.data,
                hidden |-> [message |-> message, key |-> key]]
    /\ UNCHANGED <<orbit, image, hidden, message, key, result, error, loading,
                   pc, calls, Service>>

\* handleEncode without its check of the message
EncodeRefusalKeyOnly(img, msg, k) ==
    IF img = NoValue THEN "Please select an image"
    ELSE IF TrimIsEmpty(k) THEN "Please enter a secret key"
    ELSE ""

\* the checks handleEncode makes before it calls the service
EncodeRefusal(img, msg, k) ==
    IF img = NoValue THEN "Please select an image"
    ELSE IF TrimIsEmpty(msg) THEN "Please enter a message to hide"
    ELSE IF TrimIsEmpty(k) THEN "Please enter a secret key"
    ELSE ""

\* the checks handleDecode makes before it calls the service
DecodeRefusal(img, k) ==
    IF img = NoValue THEN "Please select an image"
    ELSE IF TrimIsEmpty(k) THEN "Please enter the secret key"
    ELSE ""

\* handleEncode, with the message and key typed in, up to the first
\* iteration of encode's generatePixelSequence(totalBits)
handleEncode ==
    /\ pc = "idle"
    /\ calls < MaxCalls
    /\ calls' = calls + 1
    /\ \E m \in Messages, k \in Keys :
          /\ message' = m
          /\ key' = k
          /\ IF EncodeRefusal(image, m, k) # ""
             THEN /\ error' = EncodeRefusal(image, m, k)
                  /\ UNCHANGED <<result, loading, pc, Service>>
             ELSE /\ loading' = TRUE
                  /\ error' = NoError
                  /\ result' = NoValue
                  /\ prng' = ChaosPRNG(k, image.width, image.height)
                  /\ fullBinary' = FullBinary(m)
                  /\ gen' = StartSequence(Len(FullBinary(m)))
                  /\ returned' = <<>>
                  /\ pc' = "encode"
    /\ UNCHANGED <<orbit, image, hidden, file>>

\* one iteration of generatePixelSequence inside encode; on the last one,
\* the rest of encode and of handleEncode
EncodeStep ==
    /\ pc = "encode"
    /\ LET it   == Iterate(gen, prng)
           bufs == EncodeBuffers(image, it.gen.sequence, fullBinary)
       IN  /\ prng' = it.prng
           /\ gen' = it.gen
           /\ IF Returns(it.gen)
              THEN /\ returned' = Append(returned, it.gen)
                   /\ image' = [image EXCEPT !.data = bufs.data]
                   /\ result' = [type |-> "encoded",
                                 data |-> ImageData(bufs.newData, image.width,
                                                    image.height)]
                   /\ loading' = FALSE
                   /\ pc' = "idle"
              ELSE UNCHANGED <<returned, image, result, loading, pc>>
    /\ UNCHANGED <<orbit, hidden, file, message, key, error, fullBinary, calls>>

\* handleDecode, with the key typed in, up to the first iteration of
\* decode's generatePixelSequence(32)
handleDecode ==
    /\ pc = "idle"
    /\ calls < MaxCalls
    /\ calls' = calls + 1
    /\ \E k \in Keys :
          /\ key' = k
          /\ IF DecodeRefusal(image, k) # ""
             THEN /\ error' = DecodeRefusal(image, k)
                  /\ UNCHANGED <<result, loading, pc, Service>>
             ELSE /\ loading' = TRUE
                  /\ error' = NoError
                  /\ result' = NoValue
                  /\ prng' = ChaosPRNG(k, image.width, image.height)
                  /\ fullBinary' = <<>>
                  /\ gen' = StartSequence(HeaderBits)
                  /\ returned' = <<>>
                  /\ pc' = "decodeHeader"
    /\ UNCHANGED <<orbit, image, hidden, file, message>>

\* one iteration of generatePixelSequence(32) inside decode; on the last
\* one, the header is read and checked
DecodeHeaderStep ==
    /\ pc = "decodeHeader"
    /\ LET it == Iterate(gen, prng)
           messageLength == ParseBinary(ReadBits(image, it.gen.sequence))
       IN  /\ prng' = it.prng
           /\ IF ~Returns(it.gen)
              THEN /\ gen' = it.gen
                   /\ UNCHANGED <<returned, error, loading, pc>>
              ELSE /\ returned' = Append(returned, it.gen)
                   /\ IF InvalidLength(messageLength, image)
                      THEN /\ gen' = it.gen
                           /\ error' = "Failed to decode message. Please check your key and image."
                           /\ loading' = FALSE
                           /\ pc' = "idle"
                      ELSE /\ gen' = StartSequence(messageLength)
                           /\ pc' = "decodeBody"
                           /\ UNCHANGED <<error, loading>>
    /\ UNCHANGED <<orbit, image, hidden, file, message, key, result, fullBinary,
                   calls>>

\* one iteration of generatePixelSequence(messageLength) inside decode; on
\* the last one, the rest of decode and of handleDecode
DecodeBodyStep ==
    /\ pc = "decodeBody"
    /\ LET it == Iterate(gen, prng)
       IN  /\ prng' = it.prng
           /\ gen' = it.gen
           /\ IF Returns(it.gen)
              THEN /\ returned' = Append(returned, it.gen)
                   /\ result' = [type |-> "decoded",
                                 message |-> binaryToString(
                                                ReadBits(image, it.gen.sequence))]
                   /\ loading' = FALSE
                   /\ pc' = "idle"
              ELSE UNCHANGED <<returned, result, loading, pc>>
    /\ UNCHANGED <<orbit, image, hidden, file, message, key, error, fullBinary,
                   calls>>

Next ==
    \/ handleFileSelect
    \/ handleDownload
    \/ handleEncode
    \/ EncodeStep
    \/ handleDecode
    \/ DecodeHeaderStep
    \/ DecodeBodyStep

Spec == Init /\ [][Next]_vars

\* the JavaScript engine keeps running a handler that has started
Running == EncodeStep \/ DecodeHeaderStep \/ DecodeBodyStep

FairSpec == Spec /\ WF_vars(Running)

(***************************************************************************)
(* What a finished handleDecode left behind.                               *)
(***************************************************************************)
DecodeFailure ==
    pc = "idle" /\ error = "Failed to decode message. Please check your key and image."

Decoded ==
    pc = "idle" /\ error = NoError /\ result # NoValue /\ result.type = "decoded"

EncodedOk ==
    pc = "idle" /\ error = NoError /\ result # NoValue /\ result.type = "encoded"

(***************************************************************************)
(* C1  Round-trip: decoding an encoded image with the key it was encoded   *)
(* with yields exactly the message that was hidden in it.  Stated of every *)
(* finished handleDecode on a file that handleEncode produced.             *)
(***************************************************************************)
RoundTrip ==
    (hidden # NoValue /\ key = hidden.key /\ (Decoded \/ DecodeFailure))
        => (Decoded /\ result.message = hidden.message)

(***************************************************************************)
(* C2  Capacity boundary: an encode whose totalBits exceeds                *)
(* width*height*3 fails with an error before any location is generated,   *)
(* so location generation never runs with a count above the capacity.      *)
(***************************************************************************)
CapacityBoundary ==
    pc = "encode" => gen.count <= Capacity(image.width, image.height)

(***************************************************************************)
(* C3  Key sensitivity: decoding an encoded image with a key other than    *)
(* the one it was encoded with never yields the hidden message.            *)
(***************************************************************************)
KeySensitivity ==
    (hidden # NoValue /\ key # hidden.key /\ Decoded)
        => result.message # hidden.message

(***************************************************************************)
(* C4  Empty-input rejection: handleEncode with an empty key or an empty   *)
(* message, and handleDecode with an empty key, end in an error message    *)
(* before any computation: no sequencer is built, no location drawn, no    *)
(* output produced, and the selected image is left as it was.              *)
(***************************************************************************)
Refused ==
    /\ error' # NoError
    /\ pc' = "idle"
    /\ UNCHANGED <<image, file, result, loading, prng, gen, fullBinary, returned>>

EmptyInputRejected ==
    [][/\ (handleEncode /\ (message' = <<>> \/ key' = <<>>)) => Refused
       /\ (handleDecode /\ key' = <<>>) => Refused]_vars

EmptyMessageRefused ==
    /\ image # NoValue
    /\ message = <<>>
    /\ key # <<>>
    /\ error = "Please enter a message to hide"

(***************************************************************************)
(* C5  Termination: every started location generation comes to an end,     *)
(* so every handler that entered the service returns.                      *)
(***************************************************************************)
Termination == (pc # "idle") ~> (pc = "idle")

(***************************************************************************)
(* C6  Non-destructive bytes: after a successful encode the output has     *)
(* the input's length; a byte at no selected offset (every alpha byte      *)
(* among them) equals the input byte; a byte at a selected offset keeps    *)
(* its upper seven bits, and its lowest bit is the payload bit of that     *)
(* location.                                                               *)
(***************************************************************************)
NonDestructive ==
    EncodedOk =>
        LET in  == image.data
            out == result.data.data
            seq == returned[1].sequence
            Selects(i, o) ==
                (seq[i].y * image.width + seq[i].x) * 4 + seq[i].channel = o
        IN  /\ Len(out) = Len(in)
            /\ Len(seq) = Len(fullBinary)
            /\ \A o \in 0..(Len(in) - 1) :
                  IF \E i \in 1..Len(seq) : Selects(i, o)
                  THEN /\ out[o + 1] \div 2 = in[o + 1] \div 2
                       /\ \A i \in 1..Len(seq) :
                             Selects(i, o) => out[o + 1] % 2 = fullBinary[i]
                  ELSE out[o + 1] = in[o + 1]
            /\ \A o \in 0..(Len(in) - 1) : o % 4 = 3 => out[o + 1] = in[o + 1]

LowBitCleared ==
    /\ EncodedOk
    /\ \E o \in 1..Len(image.data) :
          image.data[o] % 2 = 1 /\ result.data.data[o] = image.data[o] - 1

(***************************************************************************)
(* C7  Uniqueness: a sequence that generatePixelSequence(count) returned   *)
(* has length count, holds no location twice, and every location of it     *)
(* lies inside the image and in channel 0, 1 or 2.                         *)
(***************************************************************************)
Uniqueness ==
    \A n \in 1..Len(returned) :
        LET seq == returned[n].sequence
        IN  /\ Len(seq) = returned[n].count
            /\ \A i, j \in 1..Len(seq) : i # j => seq[i] # seq[j]
            /\ \A i \in 1..Len(seq) :
                  /\ 0 <= seq[i].x /\ seq[i].x < prng.width
                  /\ 0 <= seq[i].y /\ seq[i].y < prng.height
                  /\ seq[i].channel \in {0, 1, 2}

FullSequenceAfterEcho ==
    /\ orbit.echoAt > 0
    /\ \E n \in 1..Len(returned) :
          returned[n].count = Capacity(prng.width, prng.height)

(***************************************************************************)
(* C8  Decode rejects a truncated body: decode never returns text when     *)
(* the length it read from the header is not a multiple of 16.             *)
(***************************************************************************)
TruncatedBodyRejected ==
    Decoded => returned[2].count % CharBits = 0

(***************************************************************************)
(* C9  Caller's buffer is never written: no step of handleEncode or        *)
(* handleDecode, from the click to the return, changes the pixel data of   *)
(* the selected image; and while encode or decode has not returned, no     *)
(* result, whole or partial, is there to see.                              *)
(***************************************************************************)
CallerBufferKept ==
    [][/\ (pc # "idle" \/ pc' # "idle" \/ calls' # calls) => image' = image
       /\ pc' # "idle" => (result' = NoValue /\ file' = file)]_vars

EncodedBesideInput ==
    /\ EncodedOk
    /\ image = Flat(image.width, image.height)
    /\ result.data # image

(***************************************************************************)
(* C10  Payload layout: the payload of a message of L code units has       *)
(* 32 + 16*L bits; its first 32 bits are 16*L in binary, most significant  *)
(* bit first; then each code unit follows in 16 bits, most significant bit *)
(* first; and binaryToString undoes stringToBinary.                        *)
(***************************************************************************)
PayloadLayout ==
    pc = "encode" =>
        LET L == Len(message)
        IN  /\ Len(fullBinary) = 32 + 16 * L
            \* bit 1 weighs 2^31, more than any length here
            /\ fullBinary[1] = 0
            /\ \A j \in 2..32 : fullBinary[j] = ((16 * L) \div 2^(32 - j)) % 2
            /\ \A i \in 0..(L - 1), j \in 0..15 :
                  fullBinary[32 + 16 * i + j + 1]
                      = (message[i + 1] \div 2^(15 - j)) % 2
            /\ binaryToString(stringToBinary(message)) = message

TwoUnitPayload == pc = "encode" /\ Len(message) = 2

(***************************************************************************)
(* C11  Determinism: a sequencer constructed by itself with the same key   *)
(* and the same (width, height) and given the same series of counts        *)
(* returns the locations a call's sequencer returned, element for element; *)
(* so what encode and decode return is settled by the image, the key and   *)
(* the message they are given, whatever calls ran before them.             *)
(***************************************************************************)
Independent ==
    Series(ChaosPRNG(prng.key, prng.width, prng.height),
           [n \in 1..Len(returned) |-> returned[n].count],
           Len(returned)).sequences

Determined ==
    LET sequences == Independent
    IN  /\ \A n \in 1..Len(returned) : returned[n].sequence = sequences[n]
        /\ Decoded =>
              /\ prng.key = key
              /\ returned[2].count = ParseBinary(ReadBits(image, sequences[1]))
              /\ result.message = binaryToString(ReadBits(image, sequences[2]))
        /\ EncodedOk =>
              /\ prng.key = key
              /\ returned[1].count = Len(FullBinary(message))
              /\ result.data
                    = ImageData(Embed(image.data, image.width, sequences[1],
                                      FullBinary(message),
                                      Len(FullBinary(message))),
                                image.width, image.height)

\* stated of every call that came to an end, while its outcome is shown
Determinism == (Decoded \/ EncodedOk \/ DecodeFailure) => Determined

DecodedAfterEncode ==
    /\ Decoded
    /\ file # NoValue
    /\ Len(result.message) > 0

(***************************************************************************)
(* C12  Header/body disjointness in decode: the locations decode reads the *)
(* body from are all different from the 32 it read the header from, and    *)
(* the header locations followed by the body locations are, element for    *)
(* element, what one generatePixelSequence(32 + n) call on a sequencer of  *)
(* the same key and dimensions returns.                                    *)
(***************************************************************************)
HeaderBodyDisjoint ==
    Decoded =>
        LET header == returned[1].sequence
            body   == returned[2].sequence
            whole  == Series(ChaosPRNG(prng.key, prng.width, prng.height),
                             <<Len(header) + Len(body)>>, 1).sequences[1]
        IN  /\ \A i \in 1..Len(body), j \in 1..Len(header) : body[i] # header[j]
            /\ header \o body = whole

====
